---------------------------- MODULE Spec2Model ----------------------------
(***************************************************************************)
(* TextPreprocessor of tensorflow_lite_support/cc/task/processor/          *)
(* text_preprocessor.cc as a state machine.                                *)
(*                                                                         *)
(* The engine's input tensors and the model metadata exist before the      *)
(* preprocessor and are chosen by the initial predicate.  Create builds    *)
(* the preprocessor (Create + Init), Preprocess is one call of             *)
(* Preprocess(input_text), Destroy is the destructor.                      *)
(*                                                                         *)
(* Spec starts from the engines with one input tensor, SpecRegex from      *)
(* those of them that carry regex tokenizer options, SpecBert and          *)
(* SpecShort from engines with three int32 input tensors of sequence       *)
(* length 2 and more, and below 2.                                         *)
(*                                                                         *)
(* C++ vectors are TLA+ sequences: element i of a vector is element i+1    *)
(* of the sequence.  Tensor indices keep their 0-based C++ values.         *)
(***************************************************************************)
EXTENDS Integers, Sequences, FiniteSets, TLC

(* ------------------------------ bounds -------------------------------- *)
\* largest dimension size of the tensor of a one-tensor engine
MaxDim == 2
\* largest rank of the tensor of a one-tensor engine
MaxRank == 3
\* largest sequence length (2 and more) of the tensors of a three-tensor engine
MaxSeqLen == 3
\* largest number of words of an input text (= subwords the tokenizer yields)
MaxSubwords == 2
\* largest number of tensor indices handed to Create
MaxIndices == 4

(* ----------------------------- constants ------------------------------ *)
kTokenizerProcessUnitIndex == 0
kIdsTensorName == "ids"
kMaskTensorName == "mask"
kSegmentIdsTensorName == "segment_ids"
kClassificationToken == "[CLS]"
kSeparator == "[SEP]"

\* static_cast<size_t>(x): size_t is 64 bits wide; the model checker's
\* integers are 32 bits wide, so the modulus is 2^30.  Every modulus larger
\* than MaxSubwords + 2 gives the same result of the std::min of line 182.
SizeTModulus == 1073741824
ToSizeT(x) == x % SizeTModulus

Min(a, b) == IF a < b THEN a ELSE b

SeqsUpTo(S, n) == UNION {[1..k -> S] : k \in 0..n}

TensorTypes == {"kTfLiteString", "kTfLiteInt32", "kTfLiteFloat32"}

\* A text is the sequence of its words.
Words == {"A", "z"}
Texts == SeqsUpTo(Words, MaxSubwords)

\* names an input tensor's metadata can carry
TensorNames == {kIdsTensorName, kMaskTensorName, kSegmentIdsTensorName, "input"}

\* absl::Status with its TfLiteSupportStatus payload
OkStatus == [code |-> "kOk", payload |-> "none"]
CreateStatusWithPayload(code, payload) == [code |-> code, payload |-> payload]

\* a std::unique_ptr<Tokenizer>: null, or a tokenizer the factory built
NullTokenizer == [held |-> FALSE, kind |-> "none", start |-> FALSE]

\* the buffer of a tensor: nothing written yet, a string, or integers
EmptyBuffer == [kind |-> "empty", text |-> <<>>, ints |-> <<>>]

\* the locals of the last Preprocess call
NoCall ==
  [kind |-> "idle", text |-> <<>>, live |-> FALSE, start |-> FALSE,
   subwords |-> <<>>,
   tokens |-> <<>>, input_ids |-> <<>>, input_mask |-> <<>>,
   segment_ids |-> <<>>, input_tokens |-> <<>>, max_sentence_length |-> 0,
   writes |-> {}, populated |-> <<>>, status |-> OkStatus]

VARIABLES
  tensors,                    \* engine inputs: index -> [type, dims]
  content,                    \* engine inputs: index -> buffer
  inputNames,                 \* GetInputTensorMetadata(): position -> name
  tensorMeta,                 \* per tensor: "no_metadata", "no_unit", "regex_unit"
  inputUnit0,                 \* GetInputProcessUnit(0): "null" or "bert_unit"
  phase,                      \* "new", "ready", "failed", "crashed", "destroyed"
  numRequested,               \* input_tensor_indices.size() of the Create call
  initRan,                    \* Create went on to Processor::Create and Init
  status,                     \* what Create returned
  tensor_indices_,
  tokenzier_type_,
  tokenizer_,
  ids_tensor_index_,
  mask_tensor_index_,
  segment_ids_tensor_index_,
  bert_max_seq_len_,
  factoryArgs,                \* arguments of the CreateTokenizerFromProcessUnit calls
  call                        \* locals and outcome of the last Preprocess call

engineVars == <<tensors, inputNames, tensorMeta, inputUnit0>>
objVars == <<tensor_indices_, tokenzier_type_, tokenizer_, ids_tensor_index_,
             mask_tensor_index_, segment_ids_tensor_index_, bert_max_seq_len_>>
vars == <<tensors, content, inputNames, tensorMeta, inputUnit0, phase,
          numRequested, initRan, status, tensor_indices_, tokenzier_type_,
          tokenizer_, ids_tensor_index_, mask_tensor_index_,
          segment_ids_tensor_index_, bert_max_seq_len_, factoryArgs, call>>

TensorIds == DOMAIN tensors

(* --------------------------- tensor helpers --------------------------- *)
RECURSIVE Product(_)
Product(dims) == IF dims = <<>> THEN 1 ELSE Head(dims) * Product(Tail(dims))

\* tensor->dims->data[tensor->dims->size - 1]
GetLastDimSize(tensor_index) ==
  tensors[tensor_index].dims[Len(tensors[tensor_index].dims)]

\* task_utils: position of the first tensor metadata of that name, else -1
FindIndexByMetadataTensorName(names, name) ==
  IF \E i \in DOMAIN names : names[i] = name
    THEN CHOOSE i \in DOMAIN names :
           names[i] = name /\ \A j \in DOMAIN names : names[j] = name => i <= j
    ELSE -1

(* ------------------------------ Create -------------------------------- *)
AcceptsTensorCountLax(n) == n >= 1 /\ n <= 3

\* the guard of Create: input_tensor_indices.size() is 1 or 3
AcceptsTensorCount(n) == ~(n # 1 /\ n # 3)

BertLengthsMismatchIdsMaskOnly(ids, mask, seg) ==
  GetLastDimSize(ids) # GetLastDimSize(mask)

\* the shape check of Init, case 3
BertLengthsMismatch(ids, mask, seg) ==
  \/ GetLastDimSize(ids) # GetLastDimSize(mask)
  \/ GetLastDimSize(ids) # GetLastDimSize(seg)

\* StatusOr<const ProcessUnit*>: the regex tokenizer options of the tensor
TryFindRegexTokenizerMetadata(t) ==
  IF tensorMeta[t] = "no_metadata"
    THEN [status |-> OkStatus, unit |-> "null"]
    ELSE LET tokenizer_metadata ==
               IF tensorMeta[t] = "regex_unit" THEN "regex_unit" ELSE "null"
         IN  IF tokenizer_metadata # "null" /\ tensors[t].type # "kTfLiteInt32"
               THEN [status |-> CreateStatusWithPayload("kInvalidArgument",
                                   "kInvalidInputTensorTypeError"),
                     unit |-> "null"]
               ELSE [status |-> OkStatus, unit |-> tokenizer_metadata]

\* tokenizer_utils: the factory needs an options block; it may fail upstream
CreateTokenizerFromProcessUnit(unit, upstream_ok, start) ==
  IF unit = "null" \/ ~upstream_ok
    THEN [status |-> CreateStatusWithPayload("kInvalidArgument",
                        "kMetadataInvalidTokenizerError"),
          tokenizer |-> NullTokenizer]
    ELSE [status |-> OkStatus,
          tokenizer |-> [held |-> TRUE,
                         kind |-> IF unit = "regex_unit" THEN "regex" ELSE "bert",
                         start |-> IF unit = "regex_unit" THEN start ELSE FALSE]]

\* the fields of a preprocessor that Processor::Create has just built
FreshObject(idx) ==
  [status |-> OkStatus, tensor_indices_ |-> idx, tokenzier_type_ |-> "unset",
   tokenizer_ |-> NullTokenizer, ids_tensor_index_ |-> -1,
   mask_tensor_index_ |-> -1, segment_ids_tensor_index_ |-> -1,
   bert_max_seq_len_ |-> 0, factoryArgs |-> <<>>]

\* lines 159-161 of Init
BuildTokenizer(obj, tokenzier_metadata, upstream_ok, start) ==
  LET made == CreateTokenizerFromProcessUnit(tokenzier_metadata, upstream_ok, start)
  IN  [obj EXCEPT !.status = made.status,
                  !.tokenizer_ = made.tokenizer,
                  !.factoryArgs = Append(@, tokenzier_metadata)]

\* TextPreprocessor::Init on a fresh object
ProcessorInit(idx, upstream_ok, start) ==
  LET obj == FreshObject(idx) IN
  CASE Len(idx) = 1 ->
         IF tensors[idx[1]].type = "kTfLiteString"
           THEN [obj EXCEPT !.tokenzier_type_ = "kNone"]
           ELSE LET found == TryFindRegexTokenizerMetadata(idx[1])
                IN  IF found.status # OkStatus
                      THEN [obj EXCEPT !.status = found.status]
                      ELSE BuildTokenizer([obj EXCEPT !.tokenzier_type_ = "kRegex"],
                                          found.unit, upstream_ok, start)
    [] Len(idx) = 3 ->
         LET ids_tensor_index ==
               FindIndexByMetadataTensorName(inputNames, kIdsTensorName)
             mask_tensor_index ==
               FindIndexByMetadataTensorName(inputNames, kMaskTensorName)
             segment_ids_tensor_index ==
               FindIndexByMetadataTensorName(inputNames, kSegmentIdsTensorName)
             ids == IF ids_tensor_index = -1 THEN idx[1] ELSE ids_tensor_index
             mask == IF mask_tensor_index = -1 THEN idx[2] ELSE mask_tensor_index
             seg == IF segment_ids_tensor_index = -1
                      THEN idx[3] ELSE segment_ids_tensor_index
             bert == [obj EXCEPT !.tokenzier_type_ = "kBert",
                                 !.ids_tensor_index_ = ids,
                                 !.mask_tensor_index_ = mask,
                                 !.segment_ids_tensor_index_ = seg]
         IN  IF BertLengthsMismatch(ids, mask, seg)
               THEN [bert EXCEPT !.status =
                       CreateStatusWithPayload("kInternal",
                                               "kInvalidNumOutputTensorsError")]
               ELSE BuildTokenizer(
                      [bert EXCEPT !.bert_max_seq_len_ = GetLastDimSize(ids)],
                      inputUnit0, upstream_ok, start)
    [] OTHER ->
         [obj EXCEPT !.status = CreateStatusWithPayload("kInvalidArgument", "none")]

\* TextPreprocessor::Create(engine, input_tensor_indices)
\* The indices of a rejected list are never read, so only its size is drawn.
\* upstream_ok: the tokenizer factory accepts the options block; start: the
\* regex tokenizer it builds defines a start token.
Create ==
  /\ phase = "new"
  /\ \E n \in 0..MaxIndices :
       /\ numRequested' = n
       /\ IF ~AcceptsTensorCount(n)
            THEN /\ status' = CreateStatusWithPayload("kInvalidArgument", "none")
                 /\ phase' = "failed"
                 /\ initRan' = FALSE
                 /\ UNCHANGED <<objVars, factoryArgs>>
            ELSE \E idx \in [1..n -> TensorIds], upstream_ok \in BOOLEAN,
                    start \in (IF n = 1 THEN BOOLEAN ELSE {FALSE}) :
                 LET obj == ProcessorInit(idx, upstream_ok, start) IN
                 /\ initRan' = TRUE
                 /\ status' = obj.status
                 /\ phase' = IF obj.status = OkStatus THEN "ready" ELSE "failed"
                 /\ tensor_indices_' = obj.tensor_indices_
                 /\ tokenzier_type_' = obj.tokenzier_type_
                 /\ tokenizer_' = obj.tokenizer_
                 /\ ids_tensor_index_' = obj.ids_tensor_index_
                 /\ mask_tensor_index_' = obj.mask_tensor_index_
                 /\ segment_ids_tensor_index_' = obj.segment_ids_tensor_index_
                 /\ bert_max_seq_len_' = obj.bert_max_seq_len_
                 /\ factoryArgs' = obj.factoryArgs
  /\ UNCHANGED <<engineVars, content, call>>

(* ----------------------------- tokenizer ------------------------------ *)
\* absl::AsciiStrToLower on one word
LowerWord(w) == IF w = "A" THEN "a" ELSE w
AsciiStrToLower(text) == [i \in DOMAIN text |-> LowerWord(text[i])]

\* Tokenizer::Tokenize: the subwords of a text are its words, in order
Tokenize(text) == text

\* the vocabulary of the Bert tokenizer: LookupId finds these tokens only
BertVocab == [t \in {kClassificationToken, kSeparator, "a"} |->
                CASE t = kClassificationToken -> 101
                  [] t = kSeparator -> 102
                  [] OTHER -> 7]
\* the vocabulary of the regex tokenizer and its special ids
RegexVocab == [t \in {"A"} |-> 8]
RegexSpecial == [start |-> 1, unknown |-> 2, pad |-> 5]

\* the tokenizer calls on a null RegexTokenizer* have no defined result: a
\* call that does not end the process leaves the ids at their initial 0 and
\* appears to return any of these subwords
GarbageSpecial == [start |-> 0, unknown |-> 0, pad |-> 0]
GarbageResults == SeqsUpTo(Words, 1)

(* -------------------------- PopulateTensor ---------------------------- *)
\* task_utils PopulateTensor(std::vector<int>): the tensor must hold int32
\* and exactly as many elements as the vector
PopulateTensor(data, t, buffers) ==
  IF tensors[t].type = "kTfLiteInt32" /\ Product(tensors[t].dims) = Len(data)
    THEN [status |-> OkStatus,
          content |-> [buffers EXCEPT ![t] =
                         [kind |-> "ints", text |-> <<>>, ints |-> data]]]
    ELSE [status |-> CreateStatusWithPayload("kInternal", "none"),
          content |-> buffers]

\* task_utils PopulateTensor(std::string): a string tensor takes any string
PopulateStringTensor(text, t, buffers) ==
  IF tensors[t].type = "kTfLiteString"
    THEN [status |-> OkStatus,
          content |-> [buffers EXCEPT ![t] =
                         [kind |-> "text", text |-> text, ints |-> <<>>]]]
    ELSE [status |-> CreateStatusWithPayload("kInternal", "none"),
          content |-> buffers]

\* one element write v[i] = x of a vector v of length len
WriteAt(v, i, x) == IF i + 1 \in DOMAIN v THEN [v EXCEPT ![i + 1] = x] ELSE v
WriteRec(arr, i, len) == [arr |-> arr, idx |-> i, len |-> len]
OutOfBounds(w) == w.idx < 0 \/ w.idx >= w.len

Zeros(n) == [i \in 1..n |-> 0]

(* --------------------------- BertPreprocess --------------------------- *)
QueryTokenCountOffByOne(L, n) == Min(ToSizeT(L - 1), n)

\* std::min(static_cast<size_t>(bert_max_seq_len_ - 2), subwords.size())
QueryTokenCount(L, n) == Min(ToSizeT(L - 2), n)

\* the loop of lines 199-202, from index i on
RECURSIVE BertFill(_, _, _)
BertFill(tokens, i, acc) ==
  IF ~(i < Len(tokens)) THEN acc
  ELSE LET tok == tokens[i + 1]
           ids == IF tok \in DOMAIN BertVocab
                    THEN WriteAt(acc.input_ids, i, BertVocab[tok])
                    ELSE acc.input_ids
           L == Len(acc.input_ids)
       IN  BertFill(tokens, i + 1,
                    [input_ids |-> ids,
                     input_mask |-> WriteAt(acc.input_mask, i, 1),
                     writes |-> acc.writes \cup {WriteRec("input_ids", i, L),
                                                WriteRec("input_mask", i, L)}])

\* TextPreprocessor::BertPreprocess, up to the point it returns
BertPreprocess(input_text) ==
  LET processed_input == AsciiStrToLower(input_text)
      subwords == Tokenize(processed_input)
      L == bert_max_seq_len_
      query_tokens == SubSeq(subwords, 1, QueryTokenCount(L, Len(subwords)))
      tokens == <<kClassificationToken>> \o query_tokens \o <<kSeparator>>
      filled == BertFill(tokens, 0, [input_ids |-> Zeros(L),
                                     input_mask |-> Zeros(L), writes |-> {}])
      segment_ids == Zeros(L)
      p1 == PopulateTensor(filled.input_ids, ids_tensor_index_, content)
      p2 == PopulateTensor(filled.input_mask, mask_tensor_index_, p1.content)
      p3 == PopulateTensor(segment_ids, segment_ids_tensor_index_, p2.content)
      st == IF p1.status # OkStatus THEN p1.status
            ELSE IF p2.status # OkStatus THEN p2.status ELSE p3.status
      buffers == IF p1.status # OkStatus THEN p1.content
                 ELSE IF p2.status # OkStatus THEN p2.content ELSE p3.content
      populated == IF p1.status # OkStatus THEN <<>>
                   ELSE IF p2.status # OkStatus THEN <<ids_tensor_index_>>
                   ELSE IF p3.status # OkStatus
                          THEN <<ids_tensor_index_, mask_tensor_index_>>
                          ELSE <<ids_tensor_index_, mask_tensor_index_,
                                 segment_ids_tensor_index_>>
  IN  [content |-> buffers,
       tokenizer_ |-> tokenizer_,
       call |-> [NoCall EXCEPT !.kind = "bert", !.text = input_text,
                               !.live = tokenizer_.held,
                               !.subwords = subwords, !.tokens = tokens,
                               !.input_ids = filled.input_ids,
                               !.input_mask = filled.input_mask,
                               !.segment_ids = segment_ids,
                               !.writes = filled.writes,
                               !.populated = populated, !.status = st]]

(* -------------------------- RegexPreprocess --------------------------- *)
RegexTokenIdPad(token, vocab, special) ==
  IF token \in DOMAIN vocab THEN vocab[token] ELSE special.pad

\* lines 248-253: the id of a subword, or the unknown id
RegexTokenId(token, vocab, special) ==
  IF token \in DOMAIN vocab THEN vocab[token] ELSE special.unknown

\* size_t max_sentence_length = dims->size == 2 ? dims->data[1] : dims->data[0]
MaxSentenceLength(dims) == IF Len(dims) = 2 THEN dims[2] ELSE dims[1]

\* the loop of lines 244-254, from subword i and position input_token_index on
RECURSIVE RegexFill(_, _, _, _, _, _)
RegexFill(subwords, i, input_token_index, acc, vocab, special) ==
  IF ~(i < Len(subwords) /\ input_token_index < Len(acc.input_tokens)) THEN acc
  ELSE RegexFill(subwords, i + 1, input_token_index + 1,
                 [input_tokens |->
                    WriteAt(acc.input_tokens, input_token_index,
                            RegexTokenId(subwords[i + 1], vocab, special)),
                  writes |-> acc.writes \cup
                    {WriteRec("input_tokens", input_token_index,
                              Len(acc.input_tokens))}],
                 vocab, special)

\* lines 224-255 with the tokenizer's answers given: its subwords, whether it
\* defines a start id, its vocabulary and its special ids
RegexEncode(input_text, t, subwords, has_start, vocab, special, live) ==
  LET max_sentence_length == MaxSentenceLength(tensors[t].dims)
      padded == [i \in 1..max_sentence_length |-> special.pad]
      started == IF has_start
                   THEN [input_tokens |-> WriteAt(padded, 0, special.start),
                         writes |-> {WriteRec("input_tokens", 0,
                                              max_sentence_length)}]
                   ELSE [input_tokens |-> padded, writes |-> {}]
      filled == RegexFill(subwords, 0, IF has_start THEN 1 ELSE 0, started,
                          vocab, special)
      p == PopulateTensor(filled.input_tokens, t, content)
  IN  [content |-> p.content,
       tokenizer_ |-> NullTokenizer,
       call |-> [NoCall EXCEPT !.kind = "regex", !.text = input_text,
                               !.live = live, !.start = has_start,
                               !.subwords = subwords,
                               !.input_tokens = filled.input_tokens,
                               !.max_sentence_length = max_sentence_length,
                               !.writes = filled.writes,
                               !.populated = IF p.status = OkStatus
                                               THEN <<t>> ELSE <<>>,
                               !.status = p.status]]

\* TextPreprocessor::RegexPreprocess: tokenizer_.release() hands the tokenizer
\* to a local unique_ptr, which destroys it when the call returns.  garbage
\* is what Tokenize on a null tokenizer appears to return.
RegexPreprocess(input_text, garbage) ==
  LET input_tensor == tensor_indices_[1]
      regex_tokenizer == IF tokenizer_.held /\ tokenizer_.kind = "regex"
                           THEN tokenizer_ ELSE NullTokenizer
  IN  IF regex_tokenizer.held
        THEN RegexEncode(input_text, input_tensor, Tokenize(input_text),
                         regex_tokenizer.start, RegexVocab, RegexSpecial, TRUE)
        ELSE RegexEncode(input_text, input_tensor, garbage, FALSE,
                         RegexVocab, GarbageSpecial, FALSE)

(* ----------------------------- Preprocess ----------------------------- *)
\* case kNone of Preprocess
PassthroughPreprocess(input_text) ==
  LET p == PopulateStringTensor(input_text, tensor_indices_[1], content)
  IN  [content |-> p.content,
       tokenizer_ |-> tokenizer_,
       call |-> [NoCall EXCEPT !.kind = "passthrough", !.text = input_text,
                               !.populated = IF p.status = OkStatus
                                               THEN <<tensor_indices_[1]>>
                                               ELSE <<>>,
                               !.status = p.status]]

\* the call has undefined behaviour: it dereferences a null tokenizer or
\* writes a vector element that does not exist
Undefined(r) ==
  \/ r.call.kind = "regex" /\ ~r.call.live
  \/ \E w \in r.call.writes : OutOfBounds(w)

\* TextPreprocessor::Preprocess(input_text).  A call with undefined behaviour
\* either ends the process or goes on with what the vectors hold.
Preprocess ==
  /\ phase = "ready"
  /\ \E input_text \in Texts :
       \E garbage \in (IF tokenzier_type_ = "kRegex" /\ ~tokenizer_.held
                         THEN GarbageResults ELSE {<<>>}) :
         LET r == CASE tokenzier_type_ = "kNone" ->
                        PassthroughPreprocess(input_text)
                   [] tokenzier_type_ = "kRegex" ->
                        RegexPreprocess(input_text, garbage)
                   [] tokenzier_type_ = "kBert" ->
                        BertPreprocess(input_text)
                   [] OTHER ->
                        [content |-> content, tokenizer_ |-> tokenizer_,
                         call |-> [NoCall EXCEPT
                                     !.kind = "unsupported",
                                     !.text = input_text,
                                     !.status = CreateStatusWithPayload(
                                                  "kInternal", "none")]]
         IN  \E crash \in (IF Undefined(r) THEN BOOLEAN ELSE {FALSE}) :
               IF crash
                 THEN /\ phase' = "crashed"
                      /\ content' = content
                      /\ tokenizer_' = r.tokenizer_
                      /\ call' = [r.call EXCEPT
                                    !.status = CreateStatusWithPayload("crash", "none"),
                                    !.populated = <<>>]
                 ELSE /\ phase' = "ready"
                      /\ content' = r.content
                      /\ tokenizer_' = r.tokenizer_
                      /\ call' = r.call
  /\ UNCHANGED <<engineVars, numRequested, initRan, status, tensor_indices_,
                 tokenzier_type_, ids_tensor_index_, mask_tensor_index_,
                 segment_ids_tensor_index_, bert_max_seq_len_, factoryArgs>>

\* ~TextPreprocessor: the tokenizer and the fields go with the preprocessor,
\* the engine's buffers stay
Destroy ==
  /\ phase = "ready"
  /\ phase' = "destroyed"
  /\ tokenizer_' = NullTokenizer
  /\ tensor_indices_' = <<>>
  /\ tokenzier_type_' = "unset"
  /\ ids_tensor_index_' = -1
  /\ mask_tensor_index_' = -1
  /\ segment_ids_tensor_index_' = -1
  /\ bert_max_seq_len_' = 0
  /\ call' = NoCall
  /\ UNCHANGED <<engineVars, content, numRequested, initRan, status,
                 factoryArgs>>

(* ------------------------------- Init --------------------------------- *)
NewObject ==
  /\ phase = "new"
  /\ numRequested = 0
  /\ initRan = FALSE
  /\ status = OkStatus
  /\ tensor_indices_ = <<>>
  /\ tokenzier_type_ = "unset"
  /\ tokenizer_ = NullTokenizer
  /\ ids_tensor_index_ = -1
  /\ mask_tensor_index_ = -1
  /\ segment_ids_tensor_index_ = -1
  /\ bert_max_seq_len_ = 0
  /\ factoryArgs = <<>>
  /\ call = NoCall

\* shapes of rank 1..MaxRank with dimension sizes 0..MaxDim
Shapes == UNION {[1..r -> 0..MaxDim] : r \in 1..MaxRank}

\* an engine with one input tensor of any type and shape, of a model with
\* no input process unit
Init ==
  /\ tensors \in [{0} -> [type : TensorTypes, dims : Shapes]]
  /\ content = [t \in {0} |-> EmptyBuffer]
  /\ inputNames = [t \in {0} |-> "input"]
  /\ tensorMeta \in [{0} -> {"no_metadata", "no_unit", "regex_unit"}]
  /\ inputUnit0 = "null"
  /\ NewObject

\* metadata names of three input tensors: any names, none of the three Bert
\* names given twice
NameLists ==
  {f \in [0..2 -> TensorNames] :
     \A i, j \in 0..2 : i # j /\ f[i] = f[j] => f[i] = "input"}

\* an engine with three int32 input tensors of shape [L], 2 <= L; the three
\* lengths differ only where at most one Bert name is given
InitBert ==
  /\ tensors \in [0..2 -> [type : {"kTfLiteInt32"},
                           dims : {<<d>> : d \in 2..MaxSeqLen}]]
  /\ content = [t \in 0..2 |-> EmptyBuffer]
  /\ inputNames \in NameLists
  /\ \/ \A i, j \in 0..2 : tensors[i].dims = tensors[j].dims
     \/ Cardinality({i \in 0..2 : inputNames[i] # "input"}) <= 1
  /\ tensorMeta = [t \in 0..2 |-> "no_unit"]
  /\ inputUnit0 = "bert_unit"
  /\ NewObject

\* an engine with three int32 input tensors of the same shape [L], L < 2
InitShort ==
  /\ tensors \in {[t \in 0..2 |-> [type |-> "kTfLiteInt32", dims |-> <<d>>]] :
                    d \in 0..1}
  /\ content = [t \in 0..2 |-> EmptyBuffer]
  /\ inputNames \in NameLists
  /\ tensorMeta = [t \in 0..2 |-> "no_unit"]
  /\ inputUnit0 = "bert_unit"
  /\ NewObject

\* an engine whose one input tensor is an int32 tensor with regex options
InitRegex ==
  /\ Init
  /\ tensors[0].type = "kTfLiteInt32"
  /\ tensorMeta[0] = "regex_unit"

Next == Create \/ Preprocess \/ Destroy

Spec == Init /\ [][Next]_vars
SpecBert == InitBert /\ [][Next]_vars
SpecRegex == InitRegex /\ [][Next]_vars
SpecShort == InitShort /\ [][Next]_vars
(* ------------------------------ claims -------------------------------- *)
\* C1: two consecutive Preprocess calls with the same text on a constructed
\* preprocessor give the same outcome and the same buffer contents: a call
\* that repeats the text of the call before it ends normally, with the
\* status of that call, and leaves every buffer as it was.
IdempotentPreprocess ==
  [][(phase = "ready" /\ call.kind # "idle" /\ call'.text = call.text
        /\ phase' \in {"ready", "crashed"})
       => (phase' = "ready" /\ content' = content
             /\ call'.status = call.status)]_vars

\* C2: a preprocessor constructed as Regex or Bert holds its tokenizer in
\* every state in which it is alive, whatever calls were made.
TokenizerHeldForLifetime ==
  (phase = "ready" /\ tokenzier_type_ \in {"kRegex", "kBert"})
    => tokenizer_.held

\* C3: for L >= 2 and n subwords, BertPreprocess builds the tokens
\* [CLS] + the first min(n, L-2) subwords + [SEP], used_length =
\* min(n, L-2) + 2 <= L of them, and three arrays of length L: ids[i] is the
\* id of token i, or 0 when the lookup fails, below used_length and 0 from
\* there on; mask[i] is 1 exactly below used_length; segment_ids is all 0.
BertEncodingResult ==
  (call.kind = "bert" /\ bert_max_seq_len_ >= 2) =>
    LET L == bert_max_seq_len_
        n == Len(call.subwords)
        kept == IF n <= L - 2 THEN n ELSE L - 2
        used_length == kept + 2
    IN  /\ call.tokens = <<"[CLS]">> \o [i \in 1..kept |-> call.subwords[i]]
                                     \o <<"[SEP]">>
        /\ Len(call.tokens) = used_length
        /\ used_length <= L
        /\ L = 2 => call.tokens = <<"[CLS]", "[SEP]">>
        /\ DOMAIN call.input_ids = 1..L
        /\ DOMAIN call.input_mask = 1..L
        /\ DOMAIN call.segment_ids = 1..L
        /\ \A i \in 1..L :
             /\ call.input_ids[i] =
                  IF i <= used_length /\ call.tokens[i] \in DOMAIN BertVocab
                    THEN BertVocab[call.tokens[i]] ELSE 0
             /\ call.input_mask[i] = IF i <= used_length THEN 1 ELSE 0
             /\ call.segment_ids[i] = 0
        /\ phase # "crashed"
        /\ call.status = OkStatus =>
             /\ call.populated = <<ids_tensor_index_, mask_tensor_index_,
                                   segment_ids_tensor_index_>>
             /\ content[segment_ids_tensor_index_].ints = call.segment_ids

\* a Bert call on L = 3 whose two subwords are cut to one
BertEncodingWitness ==
  /\ call.kind = "bert"
  /\ bert_max_seq_len_ = 3
  /\ call.text = <<"A", "z">>
  /\ call.tokens = <<"[CLS]", "a", "[SEP]">>
  /\ call.input_ids = <<101, 7, 102>>
  /\ call.input_mask = <<1, 1, 1>>

\* C4: for M >= 1 and n subwords of a live tokenizer, RegexPreprocess builds
\* an array of exactly M integers: the start id first when the tokenizer
\* defines one, then the ids of the first min(n, M - s) subwords in order,
\* the unknown id where the lookup fails, then the pad id to the end; the
\* dropped subwords raise no error, and the array is what the buffer holds
\* when the write succeeds.
RegexEncodingResult ==
  (call.kind = "regex" /\ call.live /\ call.max_sentence_length >= 1) =>
    LET M == call.max_sentence_length
        n == Len(call.subwords)
        s == IF call.start THEN 1 ELSE 0
        fit == IF n <= M - s THEN n ELSE M - s
        t == tensor_indices_[1]
    IN  /\ DOMAIN call.input_tokens = 1..M
        /\ \A i \in 1..M :
             call.input_tokens[i] =
               IF i <= s THEN RegexSpecial.start
               ELSE IF i <= s + fit
                 THEN (IF call.subwords[i - s] \in DOMAIN RegexVocab
                         THEN RegexVocab[call.subwords[i - s]]
                         ELSE RegexSpecial.unknown)
                 ELSE RegexSpecial.pad
        /\ phase # "crashed"
        /\ call.status = OkStatus <=> Product(tensors[t].dims) = M
        /\ call.status = OkStatus => content[t].ints = call.input_tokens

\* a regex call with a start id on M = 2: "z" is unknown, "A" is dropped
RegexEncodingWitness ==
  /\ call.kind = "regex"
  /\ call.live
  /\ call.start
  /\ call.max_sentence_length = 2
  /\ call.text = <<"z", "A">>
  /\ call.input_tokens = <<1, 2>>
  /\ call.status = OkStatus

\* C5: the length of the array RegexPreprocess builds is the size of the
\* last dimension of its tensor, for a tensor of any rank >= 1.
RegexLengthIsLastDim ==
  (call.kind = "regex" /\ call.live) =>
    /\ call.max_sentence_length = GetLastDimSize(tensor_indices_[1])
    /\ Len(call.input_tokens) = GetLastDimSize(tensor_indices_[1])

\* C6: Create with a number of indices other than 1 or 3 fails with
\* kInvalidArgument before Init runs: no variant is chosen, no tokenizer is
\* built, no preprocessor is returned.
BufferCountRejected ==
  (phase # "new" /\ numRequested \notin {1, 3}) =>
    /\ phase = "failed"
    /\ status.code = "kInvalidArgument"
    /\ ~initRan
    /\ tokenzier_type_ = "unset"
    /\ factoryArgs = <<>>
    /\ ~tokenizer_.held

\* Create was called with two indices on an int32 tensor with regex options
BufferCountWitness ==
  /\ phase = "failed"
  /\ numRequested = 2
  /\ tensors[0].type = "kTfLiteInt32"
  /\ tensorMeta[0] = "regex_unit"

\* C7: with three indices, construction fails with the shape error and
\* builds no tokenizer whenever the three resolved tensors do not all have
\* the same last dimension; when it succeeds, bert_max_seq_len_ is the last
\* dimension of each of the three.
BertShapeValidation ==
  (phase \in {"ready", "crashed", "failed"} /\ numRequested = 3) =>
    LET a == GetLastDimSize(ids_tensor_index_)
        b == GetLastDimSize(mask_tensor_index_)
        c == GetLastDimSize(segment_ids_tensor_index_)
    IN  /\ ~(a = b /\ b = c) =>
             /\ phase = "failed"
             /\ status = [code |-> "kInternal",
                          payload |-> "kInvalidNumOutputTensorsError"]
             /\ factoryArgs = <<>>
             /\ ~tokenizer_.held
        /\ phase \in {"ready", "crashed"} =>
             /\ bert_max_seq_len_ = a
             /\ bert_max_seq_len_ = b
             /\ bert_max_seq_len_ = c

\* ids and mask agree, segment_ids does not: construction failed
BertShapeWitness ==
  /\ phase = "failed"
  /\ numRequested = 3
  /\ GetLastDimSize(ids_tensor_index_) = GetLastDimSize(mask_tensor_index_)
  /\ GetLastDimSize(ids_tensor_index_) # GetLastDimSize(segment_ids_tensor_index_)
  /\ status.payload = "kInvalidNumOutputTensorsError"

\* C8: with one non-string tensor, the variant becomes Regex and the factory
\* is invoked, with an options block, only when a regex options block was
\* found and the tensor is int32; a found block on another type fails with
\* the type error; an absent block raises no error in the lookup and does not
\* commit the Regex variant.
RegexSelectedOnlyWithBlock ==
  (phase \in {"ready", "crashed", "failed"} /\ numRequested = 1
     /\ tensors[tensor_indices_[1]].type # "kTfLiteString") =>
    LET t == tensor_indices_[1]
        found == tensorMeta[t] = "regex_unit"
    IN  /\ tokenzier_type_ = "kRegex" =>
             found /\ tensors[t].type = "kTfLiteInt32"
        /\ factoryArgs # <<>> => factoryArgs = <<"regex_unit">>
        /\ (found /\ tensors[t].type # "kTfLiteInt32") =>
             /\ phase = "failed"
             /\ status = [code |-> "kInvalidArgument",
                          payload |-> "kInvalidInputTensorTypeError"]
        /\ ~found =>
             /\ status.payload # "kInvalidInputTensorTypeError"
             /\ tokenzier_type_ # "kRegex"

\* C9: every element write of RegexPreprocess and BertPreprocess into a
\* vector of length len is at an index i with 0 <= i < len.
WritesInBounds ==
  \A w \in call.writes : 0 <= w.idx /\ w.idx < w.len

\* C10: constructed on three pairwise distinct indices, the resolved ids,
\* mask and segment_ids indices are pairwise distinct and each is one of the
\* three supplied, and a Bert call that succeeds writes every supplied
\* tensor exactly once.
BertRolesDistinct ==
  (phase = "ready" /\ tokenzier_type_ = "kBert"
     /\ Cardinality({tensor_indices_[i] : i \in 1..3}) = 3) =>
    LET supplied == {tensor_indices_[i] : i \in 1..3}
        resolved == <<ids_tensor_index_, mask_tensor_index_,
                      segment_ids_tensor_index_>>
    IN  /\ Cardinality({resolved[i] : i \in 1..3}) = 3
        /\ \A i \in 1..3 : resolved[i] \in supplied
        /\ (call.kind = "bert" /\ call.status = OkStatus) =>
             \A t \in supplied :
               Cardinality({i \in DOMAIN call.populated :
                              call.populated[i] = t}) = 1
=============================================================================
